---- MODULE Spec2Model ----
(***************************************************************************)
(* The test-run dashboard of src/app/page.tsx: the Home component's state  *)
(* (the registry `tests`, the `filter`, the three form fields), its event  *)
(* handlers, and the two derived views (filteredTests, stats).             *)
(*                                                                         *)
(* Representation.  A form field is a JavaScript string the handlers trim; *)
(* it is held as a sequence of one-character strings so that trim() can    *)
(* inspect it.  A text stored in a record is the TLA+ string obtained by   *)
(* concatenating those characters.  The clock is epoch milliseconds, held  *)
(* as [min, ms] (whole minutes since the epoch, milliseconds within the    *)
(* minute) because the value does not fit a 32-bit integer.                *)
(***************************************************************************)
EXTENDS Integers, Sequences, FiniteSets, TLC

VARIABLES tests, filter, title, description, expected, now

vars == <<tests, filter, title, description, expected, now>>

(* ------------------------------ bounds -------------------------------- *)

\* Add is offered only while the registry holds fewer records than this
\* (the registry starts with its three seeded records, so a record is
\* removed before the first one is added).
MaxTests == 3
\* The clock advances at most this many milliseconds past StartClock.
MaxTicks == 1

(* ------------------------------ clock --------------------------------- *)

MsPerMinute == 60000
MinutesPerDay == 1440

\* 2024-04-09 09:00:00.000 UTC, the day after the seeded records' last runs.
StartClock == [min |-> 28544220, ms |-> 0]

Elapsed(t) == (t.min - StartClock.min) * MsPerMinute + (t.ms - StartClock.ms)

\* The instant one millisecond after t.
NextMs(t) ==
    IF t.ms + 1 = MsPerMinute
    THEN [min |-> t.min + 1, ms |-> 0]
    ELSE [min |-> t.min, ms |-> t.ms + 1]

RECURSIVE After(_, _)
After(t, k) == IF k = 0 THEN t ELSE After(NextMs(t), k - 1)

\* The instants the clock can show.
Instants == { After(StartClock, k) : k \in 0..MaxTicks }

(* ------------------------------ strings ------------------------------- *)

Whitespace == {" ", "\t", "\n"}

RECURSIVE Join(_)
Join(s) == IF s = <<>> THEN "" ELSE Head(s) \o Join(Tail(s))

RECURSIVE TrimStart(_)
TrimStart(s) ==
    IF s # <<>> /\ Head(s) \in Whitespace THEN TrimStart(Tail(s)) ELSE s

RECURSIVE TrimEnd(_)
TrimEnd(s) ==
    IF s # <<>> /\ s[Len(s)] \in Whitespace
    THEN TrimEnd(SubSeq(s, 1, Len(s) - 1))
    ELSE s

\* String.prototype.trim
Trim(s) == TrimEnd(TrimStart(s))

Digit(d) == ToString(d)

Pad2(n) == Digit(n \div 10) \o Digit(n % 10)

Pad4(n) == Pad2(n \div 100) \o Pad2(n % 100)

\* `${Date.now()}`: the decimal digits of min * 60000 + ms.
DateNowString(t) ==
    ToString(t.min * 6 + t.ms \div 10000) \o Pad4(t.ms % 10000)

\* The proleptic Gregorian date of a day number counted from 1970-01-01.
CivilFromDays(days) ==
    LET z   == days + 719468
        era == z \div 146097
        doe == z - era * 146097
        yoe == (doe - doe \div 1460 + doe \div 36524 - doe \div 146096) \div 365
        doy == doe - (365 * yoe + yoe \div 4 - yoe \div 100)
        mp  == (5 * doy + 2) \div 153
        d   == doy - (153 * mp + 2) \div 5 + 1
        m   == IF mp < 10 THEN mp + 3 ELSE mp - 9
        y   == yoe + era * 400 + (IF m <= 2 THEN 1 ELSE 0)
    IN  [year |-> y, month |-> m, day |-> d]

\* The first ten characters of toISOString(): "YYYY-MM-DD" (UTC).
IsoDate(t) ==
    LET c == CivilFromDays(t.min \div MinutesPerDay)
    IN  Pad4(c.year) \o "-" \o Pad2(c.month) \o "-" \o Pad2(c.day)

\* Characters 12 to 16 of toISOString(): "HH:mm" (UTC).
IsoHourMinute(t) ==
    LET hm == t.min % MinutesPerDay
    IN  Pad2(hm \div 60) \o ":" \o Pad2(hm % 60)

\* new Date().toISOString().slice(0, 16).replace("T", " "): the slice keeps
\* "YYYY-MM-DDTHH:mm" and drops seconds, milliseconds and the "Z"; its one
\* "T" becomes a space.
LastRunStamp(t) == IsoDate(t) \o " " \o IsoHourMinute(t)

\* The two conversions, tabulated once over the instants of the clock.
DateNowStringAt == [t \in Instants |-> DateNowString(t)]

LastRunStampAt == [t \in Instants |-> LastRunStamp(t)]

(* ------------------------------ records ------------------------------- *)

TestStatus == {"pending", "pass", "fail"}

FilterOption == {"all"} \cup TestStatus

\* The value of the optional field lastRun of a record that has none.
undefined == "undefined"

\* The seeded records.  The backquotes of the two expected texts are written
\* as apostrophes: the module's string syntax has no backquote.
defaultTests ==
    << [id          |-> "auth-flow",
        title       |-> "Authentication Flow",
        description |-> "Validate that a new user can register, receive a confirmation email, and sign in successfully.",
        expected    |-> "User lands on dashboard with a welcome toast and access token stored.",
        status      |-> "pending",
        lastRun     |-> undefined],
       [id          |-> "payments",
        title       |-> "Payment Capture",
        description |-> "Charge an existing customer for a saved card using the hosted checkout form.",
        expected    |-> "Charge completes with status 'succeeded' in Stripe dashboard.",
        status      |-> "pass",
        lastRun     |-> "2024-04-08 14:12"],
       [id          |-> "webhooks",
        title       |-> "Webhook Retries",
        description |-> "Force a webhook to fail once and confirm the retry logic delivers the payload on the second attempt.",
        expected    |-> "Delivery log shows two attempts and final status 'delivered'.",
        status      |-> "fail",
        lastRun     |-> "2024-04-07 09:34"] >>

(* --------------------------- derived views ---------------------------- *)

\* A filter that puts each kept record behind the ones kept after it.
FilterByStatusReversed(ts, f) ==
    LET RECURSIVE Keep(_)
        Keep(r) ==
            IF r = <<>> THEN <<>>
            ELSE IF Head(r).status = f
                 THEN Keep(Tail(r)) \o <<Head(r)>>
                 ELSE Keep(Tail(r))
    IN  Keep(ts)

\* Array.prototype.filter with the predicate test.status === f.
RECURSIVE FilterByStatus(_, _)
FilterByStatus(ts, f) ==
    IF ts = <<>> THEN <<>>
    ELSE IF Head(ts).status = f
         THEN <<Head(ts)>> \o FilterByStatus(Tail(ts), f)
         ELSE FilterByStatus(Tail(ts), f)

filteredTests(ts, f) == IF f = "all" THEN ts ELSE FilterByStatus(ts, f)

\* A reducer that counts every record as pending.
StatsStepAllPending(acc, test) ==
    [acc EXCEPT !.total = @ + 1, !.pending = @ + 1]

StatsStep(acc, test) ==
    [acc EXCEPT !.total = @ + 1, ![test.status] = @ + 1]

RECURSIVE StatsReduce(_, _)
StatsReduce(ts, acc) ==
    IF ts = <<>> THEN acc ELSE StatsReduce(Tail(ts), StatsStep(acc, Head(ts)))

stats(ts) == StatsReduce(ts, [total |-> 0, pending |-> 0, pass |-> 0, fail |-> 0])

(* ------------------------------ inputs -------------------------------- *)

TitleInputs == { <<>>, <<" ">>, <<" ", "a", " ">> }

DescriptionInputs == { <<>>, <<"d", " ">> }

ExpectedInputs == { <<>>, <<" ">> }

DefaultIds == { defaultTests[i].id : i \in 1..Len(defaultTests) }

\* The ids a caller may pass: the ids of the records of the registry, and the
\* id of a seeded record, which matches no record once that record is removed.
IdInputs ==
    { tests[i].id : i \in 1..Len(tests) } \cup { defaultTests[2].id }

(* ------------------------------ handlers ------------------------------ *)

\* A validation that forgets to trim.
TitleIsEmpty(t) == t = <<>>

TitleIsBlank(t) == Trim(t) = <<>>

OrDefault(s, placeholder) == IF Trim(s) = <<>> THEN placeholder ELSE Join(Trim(s))

NewTest ==
    [id          |-> DateNowStringAt[now],
     title       |-> Join(Trim(title)),
     description |-> OrDefault(description, "No description provided."),
     expected    |-> OrDefault(expected, "No expected result documented."),
     status      |-> "pending",
     lastRun     |-> undefined]

\* An insertion at the back of the collection.
AppendAtBack(newTest, current) == current \o <<newTest>>

Prepend(newTest, current) == <<newTest>> \o current

HandleAddTest ==
    /\ Len(tests) < MaxTests
    /\ IF TitleIsBlank(title)
       THEN UNCHANGED <<tests, title, description, expected, filter>>
       ELSE /\ tests' = Prepend(NewTest, tests)
            /\ title' = <<>>
            /\ description' = <<>>
            /\ expected' = <<>>
            /\ filter' = "all"
    /\ UNCHANGED now

\* A mapper that forgets to compare ids.
UpdateOneAnyId(test, id, status, t) ==
    [test EXCEPT !.status = status, !.lastRun = LastRunStampAt[t]]

\* A mapper that stamps lastRun only when the status really changes.
UpdateOneIfChanged(test, id, status, t) ==
    IF test.id = id /\ test.status # status
    THEN [test EXCEPT !.status = status, !.lastRun = LastRunStampAt[t]]
    ELSE test

\* A mapper that forgets the timestamp.
UpdateOneNoStamp(test, id, status, t) ==
    IF test.id = id THEN [test EXCEPT !.status = status] ELSE test

UpdateOne(test, id, status, t) ==
    IF test.id = id
    THEN [test EXCEPT !.status = status, !.lastRun = LastRunStampAt[t]]
    ELSE test

UpdateAll(current, id, status, t) ==
    [i \in 1..Len(current) |-> UpdateOne(current[i], id, status, t)]

HandleUpdateStatus(id, status) ==
    /\ tests' = UpdateAll(tests, id, status, now)
    /\ UNCHANGED <<filter, title, description, expected, now>>

RECURSIVE RemoveAll(_, _)
RemoveAll(current, id) ==
    IF current = <<>> THEN <<>>
    ELSE IF Head(current).id # id
         THEN <<Head(current)>> \o RemoveAll(Tail(current), id)
         ELSE RemoveAll(Tail(current), id)

HandleRemove(id) ==
    /\ tests' = RemoveAll(tests, id)
    /\ UNCHANGED <<filter, title, description, expected, now>>

SetFilter(option) ==
    /\ filter' = option
    /\ UNCHANGED <<tests, title, description, expected, now>>

SetTitle(value) ==
    /\ title' = value
    /\ UNCHANGED <<tests, filter, description, expected, now>>

SetDescription(value) ==
    /\ description' = value
    /\ UNCHANGED <<tests, filter, title, expected, now>>

SetExpected(value) ==
    /\ expected' = value
    /\ UNCHANGED <<tests, filter, title, description, now>>

\* The wall clock read by Date.now() and new Date() moves on by a millisecond.
Tick ==
    /\ Elapsed(now) < MaxTicks
    /\ now' = NextMs(now)
    /\ UNCHANGED <<tests, filter, title, description, expected>>

Init ==
    /\ tests = defaultTests
    /\ filter = "all"
    /\ title = <<>>
    /\ description = <<>>
    /\ expected = <<>>
    /\ now = StartClock

Next ==
    \/ HandleAddTest
    \/ \E id \in IdInputs, status \in TestStatus : HandleUpdateStatus(id, status)
    \/ \E id \in IdInputs : HandleRemove(id)
    \/ \E option \in FilterOption : SetFilter(option)
    \/ \E value \in TitleInputs : SetTitle(value)
    \/ \E value \in DescriptionInputs : SetDescription(value)
    \/ \E value \in ExpectedInputs : SetExpected(value)
    \/ Tick

Spec == Init /\ [][Next]_vars

(***************************************************************************)
(* The state space of Spec is the product of the form's states and the     *)
(* registry's states.  The properties are checked under two sessions that  *)
(* between them take every action of Next:                                 *)
(*   SpecRegistry  the user types titles only, and adds, updates, removes  *)
(*                 and filters while the clock runs;                       *)
(*   SpecForm      the user types all three fields, and adds, removes and  *)
(*                 filters while the clock runs.                           *)
(***************************************************************************)
NextRegistry ==
    \/ HandleAddTest
    \/ \E id \in IdInputs, status \in TestStatus : HandleUpdateStatus(id, status)
    \/ \E id \in IdInputs : HandleRemove(id)
    \/ \E option \in FilterOption : SetFilter(option)
    \/ \E value \in TitleInputs : SetTitle(value)
    \/ Tick

SpecRegistry == Init /\ [][NextRegistry]_vars

NextForm ==
    \/ HandleAddTest
    \/ \E id \in IdInputs : HandleRemove(id)
    \/ \E option \in FilterOption : SetFilter(option)
    \/ \E value \in TitleInputs : SetTitle(value)
    \/ \E value \in DescriptionInputs : SetDescription(value)
    \/ \E value \in ExpectedInputs : SetExpected(value)
    \/ Tick

SpecForm == Init /\ [][NextForm]_vars

(* ----------------------- vocabulary of the claims --------------------- *)

Present(id) == \E i \in 1..Len(tests) : tests[i].id = id

\* A text with no character other than whitespace (the empty text included).
Blank(s) == \A i \in 1..Len(s) : s[i] \in Whitespace

\* The positions of ts whose record has status f, and those whose id is not id.
WithStatus(ts, f) == { i \in 1..Len(ts) : ts[i].status = f }

WithoutId(ts, id) == { i \in 1..Len(ts) : ts[i].id # id }

\* The k-th smallest member of a set of positions.
Kth(S, k) == CHOOSE i \in S : Cardinality({ j \in S : j <= i }) = k

\* view holds exactly the records of ts at the positions S, in their order.
IsSubsequenceAt(view, ts, S) ==
    /\ Len(view) = Cardinality(S)
    /\ \A k \in 1..Len(view) : view[k] = ts[Kth(S, k)]

(* -------------------------------- C1 ---------------------------------- *)

\* C1: in every reachable state no two records of the registry have the same
\* id, also when two Adds read the same clock value.
C1_UniqueIds ==
    \A i, j \in 1..Len(tests) : i # j => tests[i].id # tests[j].id

(* -------------------------------- C2 ---------------------------------- *)

\* C2: an Add whose title is not blank raises Stats().total by exactly 1,
\* puts the new record at position 1 of the view under filter = all (the
\* filter the Add selects), and keeps every earlier record, unchanged and in
\* the same order, behind it.
C2_AddInsertsAtFront ==
    /\ [](~Blank(title) /\ Len(tests) < MaxTests =>
            ENABLED (HandleAddTest /\ Len(tests') = Len(tests) + 1))
    /\ [][ (HandleAddTest /\ ~Blank(title)) =>
             LET view == filteredTests(tests', "all")
             IN  /\ stats(tests').total = stats(tests).total + 1
                 /\ filter' = "all"
                 /\ Len(view) = Len(tests) + 1
                 /\ view[1].id = DateNowStringAt[now]
                 /\ view[1].title = Join(Trim(title))
                 /\ view[1].status = "pending"
                 /\ view[1].lastRun = undefined
                 /\ \A i \in 1..Len(tests) : view[i + 1] = tests[i] ]_vars

\* An added record with a typed description stands in front of a seeded one.
C2_Witness ==
    /\ Len(tests) >= 2
    /\ tests[1].id \notin DefaultIds
    /\ tests[1].description = "d"
    /\ tests[2].id \in DefaultIds
    /\ filter = "all"
    /\ title = <<>>

(* -------------------------------- C3 ---------------------------------- *)

\* C3: an Add whose title is empty or all whitespace creates no record and
\* leaves the registry, the three form fields and the filter as they were.
C3_BlankTitleRejected ==
    [][ (HandleAddTest /\ Blank(title)) =>
          UNCHANGED <<tests, title, description, expected, filter>> ]_vars

\* A submit is possible with a whitespace-only title, a typed description and
\* a filter other than all.
C3_Witness ==
    /\ title = <<" ">>
    /\ description # <<>>
    /\ filter = "fail"
    /\ \E i \in 1..Len(tests) : tests[i].id \notin DefaultIds
    /\ ENABLED HandleAddTest

(* -------------------------------- C4 ---------------------------------- *)

\* C4: UpdateStatus(id, S) on a record of the registry sets that record's
\* status to S and its lastRun to the current time, keeps its other fields,
\* and leaves every other record, the number of records and their order
\* unchanged.
C4_UpdateChangesOneRecord ==
    [][ \A id \in IdInputs, status \in TestStatus :
          HandleUpdateStatus(id, status) =>
            \A i \in 1..Len(tests) :
              tests[i].id = id =>
                /\ Len(tests') = Len(tests)
                /\ tests'[i] = [tests[i] EXCEPT !.status = status,
                                                 !.lastRun = LastRunStampAt[now]]
                /\ \A j \in 1..Len(tests) : j # i => tests'[j] = tests[j] ]_vars

(* -------------------------------- C5 ---------------------------------- *)

\* C5: Remove(id) of an id of the registry lowers Stats().total by exactly 1:
\* the one record with that id goes, the others keep fields and order.
C5_RemoveDeletesOneRecord ==
    [][ \A id \in IdInputs :
          (HandleRemove(id) /\ Present(id)) =>
            /\ stats(tests').total = stats(tests).total - 1
            /\ \E i \in 1..Len(tests) :
                 /\ tests[i].id = id
                 /\ IsSubsequenceAt(tests', tests, (1..Len(tests)) \ {i}) ]_vars

(* -------------------------------- C6 ---------------------------------- *)

\* C6: UpdateStatus and Remove with an id that matches no record leave the
\* registry as it was; a Remove leaves no record with its id, so a second
\* Remove of the same id changes nothing more.
C6_UnknownIdIsNoOp ==
    [][ \A id \in IdInputs :
          /\ ~Present(id) =>
               /\ \A status \in TestStatus :
                    HandleUpdateStatus(id, status) => tests' = tests
               /\ HandleRemove(id) => tests' = tests
          /\ HandleRemove(id) =>
               /\ \A i \in 1..Len(tests') : tests'[i].id # id
               /\ RemoveAll(tests', id) = tests' ]_vars

\* A seeded record has been removed while others, one of them updated, stay:
\* its id now matches no record.
C6_Witness ==
    /\ ~Present("payments")
    /\ \E i \in 1..Len(tests) :
         tests[i].id = "webhooks" /\ tests[i].lastRun = LastRunStampAt[now]
    /\ \E i \in 1..Len(tests) : tests[i].id \notin DefaultIds

(* -------------------------------- C7 ---------------------------------- *)

C7_ViewIsSubsequence ==
    /\ filteredTests(tests, "all") = tests
    /\ \A f \in TestStatus :
         IsSubsequenceAt(filteredTests(tests, f), tests, WithStatus(tests, f))

\* C7: the view under all is the registry's sequence, the view under a status
\* is exactly the records of that status in registry order, and a change of
\* filter leaves the registry as it was.
C7_FilteredView ==
    /\ []C7_ViewIsSubsequence
    /\ [][ (\E option \in FilterOption : SetFilter(option)) =>
             tests' = tests ]_vars

\* Two records pass with a failing one between them, under the pass filter.
C7_Witness ==
    /\ Len(tests) = 3
    /\ tests[1].status = "pass"
    /\ tests[2].status = "fail"
    /\ tests[3].status = "pass"
    /\ tests[1] # tests[3]
    /\ filter = "pass"

(* -------------------------------- C8 ---------------------------------- *)

\* C8: in every reachable state pending + pass + fail = total, total is the
\* number of records, and each count is the number of records of that status.
C8_StatsAreCounts ==
    LET st == stats(tests)
    IN  /\ st.pending + st.pass + st.fail = st.total
        /\ st.total = Len(tests)
        /\ \A f \in TestStatus : st[f] = Cardinality(WithStatus(tests, f))

\* After an Add, updates and a Remove the counts differ from the seeded ones.
C8_Witness ==
    /\ stats(tests) = [total |-> 3, pending |-> 0, pass |-> 2, fail |-> 1]
    /\ \E i \in 1..Len(tests) : tests[i].id \notin DefaultIds

(* -------------------------------- C9 ---------------------------------- *)

\* The lastRun fields of the registry, in order.
LastRuns(ts) == [i \in 1..Len(ts) |-> ts[i].lastRun]

\* What the updater of UpdateStatus(id, S) makes of the registry as it is now:
\* every record with that id gets status S and the current time as lastRun,
\* also when S is the status it had; every other lastRun is kept.
C9_UpdateWritesLastRun ==
    \A id \in IdInputs, status \in TestStatus :
        LET after == UpdateAll(tests, id, status, now)
        IN  /\ Len(after) = Len(tests)
            /\ \A i \in 1..Len(tests) :
                 /\ after[i].id = tests[i].id
                 /\ tests[i].id = id =>
                      /\ after[i].status = status
                      /\ after[i].lastRun = LastRunStampAt[now]
                 /\ tests[i].id # id => after[i].lastRun = tests[i].lastRun

\* C9: a record made by Add starts pending with no lastRun; Add, Remove and
\* a change of filter write no record's lastRun; UpdateStatus(id, S) writes
\* the lastRun of the records with that id, whatever their status was, and of
\* no other record.
C9_LastRunWrittenByUpdateOnly ==
    /\ []C9_UpdateWritesLastRun
    /\ [][ /\ (HandleAddTest /\ ~Blank(title)) =>
                /\ tests'[1].status = "pending"
                /\ tests'[1].lastRun = undefined
                /\ Tail(LastRuns(tests')) = LastRuns(tests)
           /\ \A id \in IdInputs :
                HandleRemove(id) =>
                  IsSubsequenceAt(tests', tests, WithoutId(tests, id))
           /\ (\E option \in FilterOption : SetFilter(option)) =>
                LastRuns(tests') = LastRuns(tests)
           /\ \A id \in IdInputs, status \in TestStatus :
                HandleUpdateStatus(id, status) =>
                  /\ Len(tests') = Len(tests)
                  /\ \A i \in 1..Len(tests) :
                       /\ tests'[i].id = tests[i].id
                       /\ tests'[i].lastRun =
                            IF tests[i].id = id THEN LastRunStampAt[now]
                                                ELSE tests[i].lastRun ]_vars

\* The seeded passing record still passes and carries a new lastRun, beside
\* an added record that has none.
C9_Witness ==
    /\ \E i \in 1..Len(tests) :
         /\ tests[i].id = "payments"
         /\ tests[i].status = "pass"
         /\ tests[i].lastRun = LastRunStampAt[now]
    /\ \E i \in 1..Len(tests) :
         tests[i].id \notin DefaultIds /\ tests[i].lastRun = undefined

(* -------------------------------- C10 --------------------------------- *)

\* C10: in every reachable state a record with no lastRun is pending.
C10_NoLastRunImpliesPending ==
    \A i \in 1..Len(tests) :
        tests[i].lastRun = undefined => tests[i].status = "pending"

\* A pending record with no lastRun beside a pending record that has one (a
\* record reset to pending keeps its lastRun).
C10_Witness ==
    /\ \E i \in 1..Len(tests) :
         tests[i].status = "pending" /\ tests[i].lastRun = undefined
    /\ \E i \in 1..Len(tests) :
         tests[i].status = "pending" /\ tests[i].lastRun # undefined

====
